---- MODULE Spec2Model ----
(***************************************************************************)
(* Query complexity validation rule of strawberry-query-complexity         *)
(* (src/strawberry_query_complexity/_validation.py).                       *)
(*                                                                         *)
(* A validation pass is one QueryComplexityValidationRule instance driven  *)
(* by the host's depth-first AST visitor.  A document is modelled as the   *)
(* sequence of enter/leave callbacks the visitor issues for it; each       *)
(* callback of the rule is one action.  The rule's cost tree is a heap of  *)
(* State records addressed by index, because the Python objects are shared *)
(* by reference between the traversal stack, the children lists and the    *)
(* fragment table.                                                         *)
(***************************************************************************)
EXTENDS Integers, Sequences, FiniteSets, TLC

(***************************************************************************)
(* Bounds of the model.                                                    *)
(***************************************************************************)
\* fields plus fragment spreads selected in one document
MaxFields == 2
\* largest default_complexity the extension is configured with
MaxDefault == 1
\* largest max_complexity the extension is configured with
MaxMax == 3
\* the depth of calls the interpreter allows, beyond every acyclic tree here
RecursionLimit == MaxFields + 8

Passes == 1..2

(***************************************************************************)
(* Optional values: strawberry.UNSET / None is the empty set, a present    *)
(* value n is {n}.                                                         *)
(***************************************************************************)
UNSET == {}
Some(n) == {n}

\* mutant of _get_unset_value: the default is used even when a value is set
GetUnsetValueAlwaysDefault(value, default) == default

_get_unset_value(value, default) ==
    IF value = UNSET THEN default ELSE CHOOSE v \in value : TRUE

(***************************************************************************)
(* Cost directives (AnyCostDirective | None).                              *)
(***************************************************************************)
NoDirective ==
    [tag |-> "None", complexity |-> UNSET, assumed_size |-> UNSET, arguments |-> {}]
Cost(c) ==
    [tag |-> "Cost", complexity |-> c, assumed_size |-> UNSET, arguments |-> {}]
ListCost(c, a, args) ==
    [tag |-> "ListCost", complexity |-> c, assumed_size |-> a, arguments |-> args]
\* a schema directive that is not a cost directive
OtherDirective ==
    [tag |-> "Other", complexity |-> UNSET, assumed_size |-> UNSET, arguments |-> {}]
\* what max() of an empty sequence gives: ValueError
RaisedValueError ==
    [tag |-> "ValueError", complexity |-> UNSET, assumed_size |-> UNSET, arguments |-> {}]

(***************************************************************************)
(* Schema elements as the type-system oracle presents them: a field        *)
(* definition or named type carries the directives attached to it; an      *)
(* interface type carries, per implementing object type, that type's       *)
(* directives.  Absent is a missing node (None).                           *)
(***************************************************************************)
Absent == [kind |-> "absent", directives |-> <<>>, objects |-> <<>>]
Element(directives) == [kind |-> "element", directives |-> directives, objects |-> <<>>]
Interface(objects) == [kind |-> "interface", directives |-> <<>>, objects |-> objects]

\* mutant of default_cost_compare_key: a list cost is keyed by its complexity
CompareKeyNoListCase(directive) ==
    IF directive.tag = "None" THEN -1 ELSE _get_unset_value(directive.complexity, 0)

default_cost_compare_key(directive) ==
    IF directive.tag = "None" THEN -1
    ELSE IF directive.tag = "ListCost" THEN _get_unset_value(directive.assumed_size, 0)
    ELSE _get_unset_value(directive.complexity, 0)

\* mutant of MaxByKey: the last maximal element wins, and min where keys differ
MinByKey(seq) ==
    IF seq = <<>> THEN RaisedValueError
    ELSE seq[CHOOSE i \in 1..Len(seq) :
                /\ \A j \in 1..Len(seq) :
                      default_cost_compare_key(seq[i]) <= default_cost_compare_key(seq[j])
                /\ \A j \in 1..(i - 1) :
                      default_cost_compare_key(seq[j]) > default_cost_compare_key(seq[i])]

\* Python's max(seq, key = default_cost_compare_key): the first element whose
\* key is maximal; ValueError on an empty sequence.
MaxByKey(seq) ==
    IF seq = <<>> THEN RaisedValueError
    ELSE seq[CHOOSE i \in 1..Len(seq) :
                /\ \A j \in 1..Len(seq) :
                      default_cost_compare_key(seq[j]) <= default_cost_compare_key(seq[i])
                /\ \A j \in 1..(i - 1) :
                      default_cost_compare_key(seq[j]) < default_cost_compare_key(seq[i])]

\* the loop over node.extensions / extension.directives: the first cost directive
FirstCostDirective(directives) ==
    IF \E i \in 1..Len(directives) : directives[i].tag \in {"Cost", "ListCost"}
    THEN directives[CHOOSE i \in 1..Len(directives) :
                       /\ directives[i].tag \in {"Cost", "ListCost"}
                       /\ \A j \in 1..(i - 1) : directives[j].tag \notin {"Cost", "ListCost"}]
    ELSE NoDirective

_get_cost_directive(node) ==
    IF node.kind = "absent" THEN NoDirective
    ELSE IF node.kind = "interface"
    THEN MaxByKey([i \in 1..Len(node.objects) |-> FirstCostDirective(node.objects[i])])
    ELSE FirstCostDirective(node.directives)

(***************************************************************************)
(* AST nodes, as the callbacks the visitor issues.  One record shape for   *)
(* every callback; the fields a callback does not use are blank.           *)
(*   name       field or fragment name                                     *)
(*   inParent   field_name in parent_type.fields                           *)
(*   def        parent_type.fields[field_name]                             *)
(*   implDefs   obj.fields[field_name] for the implementors of an          *)
(*              interface parent type                                      *)
(*   type       context.get_type(): the field's declared return type       *)
(*   landing    kind of the named return type (of the type condition for a *)
(*              fragment definition), the parent type of the sub-selection *)
(*   arguments  node.arguments, in the order written                       *)
(*   variables  outcome of get_variable_values for an operation            *)
(***************************************************************************)
NoVariables == [ok |-> TRUE, bound |-> FALSE, value |-> UNSET]
Variables(ok, bound, value) == [ok |-> ok, bound |-> bound, value |-> value]

Callback(k, name, landing, variables) ==
    [k |-> k, name |-> name, inParent |-> FALSE, def |-> Absent, implDefs |-> <<>>,
     type |-> Absent, landing |-> landing, arguments |-> <<>>, variables |-> variables]

FieldNode(name, inParent, def, implDefs, type, landing, arguments) ==
    [k |-> "enter_field", name |-> name, inParent |-> inParent, def |-> def,
     implDefs |-> implDefs, type |-> type, landing |-> landing,
     arguments |-> arguments, variables |-> NoVariables]

IntArg(name, n) == [name |-> name, kind |-> "int", val |-> n]
NullArg(name) == [name |-> name, kind |-> "null", val |-> 0]
VarArg(name) == [name |-> name, kind |-> "var", val |-> 0]

FragmentNames == {"F", "G"}
IntrospectionNames == {"__typename", "__schema"}

(***************************************************************************)
(* The AST nodes of the documents validated, with the schema's answers.    *)
(***************************************************************************)
\* an unannotated field of an object type; its return type carries a flat cost
PlainField ==
    FieldNode("plain", TRUE, Element(<<>>), <<>>, Element(<<Cost(Some(2))>>), "object", <<>>)
\* a field with a declared flat cost, after a directive that is no cost
FlatField ==
    FieldNode("flat", TRUE, Element(<<OtherDirective, Cost(Some(2))>>), <<>>,
              Element(<<>>), "object", <<>>)
\* a field with a flat cost whose complexity is unset
UnsetFlatField ==
    FieldNode("flatUnset", TRUE, Element(<<Cost(UNSET)>>), <<>>,
              Element(<<Cost(Some(1))>>), "object", <<>>)
\* an introspection meta-field
TypenameField ==
    FieldNode("__typename", FALSE, Absent, <<>>, Element(<<>>), "none", <<>>)

\* the list cost of the fields below: assumed size 3, sized by first and last
SizedList == ListCost(Some(4), Some(3), {"first", "last"})
\* the object type the list fields return, with a flat cost of 2
ItemType == Element(<<Cost(Some(2))>>)
\* a list field queried with first: 5 (and an argument that is no size argument)
First5Field ==
    FieldNode("first5", TRUE, Element(<<SizedList>>), <<>>, ItemType, "object",
              <<IntArg("after", 1), IntArg("first", 5)>>)
\* the list field queried without a size argument
AssumedField ==
    FieldNode("assumed", TRUE, Element(<<SizedList>>), <<>>, ItemType, "object", <<>>)
\* the list field queried with first: 2, last: 3
First2Last3Field ==
    FieldNode("first2last3", TRUE, Element(<<SizedList>>), <<>>, ItemType, "object",
              <<IntArg("first", 2), IntArg("last", 3)>>)
\* the list field queried with first: $n
FirstVarField ==
    FieldNode("firstVar", TRUE, Element(<<SizedList>>), <<>>, ItemType, "object",
              <<VarArg("first")>>)
\* the list field queried with first: -1
FirstNegativeField ==
    FieldNode("firstNegative", TRUE, Element(<<SizedList>>), <<>>, ItemType, "object",
              <<IntArg("first", -1)>>)
\* a list field whose directive names no size argument and no assumed size
UnsizedField ==
    FieldNode("unsized", TRUE, Element(<<ListCost(UNSET, UNSET, {})>>), <<>>, ItemType,
              "object", <<IntArg("first", 5)>>)

\* a field returning an interface type; of its two implementing object types
\* the second carries a flat cost of 1
NodeField ==
    FieldNode("node", TRUE, Element(<<>>), <<Element(<<>>), Element(<<>>)>>,
              Interface(<< <<>>, <<Cost(Some(1))>> >>), "interface", <<>>)
\* fields of the interface, with the definitions of the two implementors
LowHighField ==
    FieldNode("lowHigh", TRUE, Element(<<>>),
              <<Element(<<Cost(Some(1))>>), Element(<<Cost(Some(3))>>)>>,
              Element(<<>>), "object", <<>>)
HighLowField ==
    FieldNode("highLow", TRUE, Element(<<>>),
              <<Element(<<Cost(Some(3))>>), Element(<<Cost(Some(1))>>)>>,
              Element(<<>>), "object", <<>>)
\* equal comparison keys: an unset complexity and a complexity of 0
TieField ==
    FieldNode("tie", TRUE, Element(<<>>),
              <<Element(<<Cost(UNSET)>>), Element(<<Cost(Some(0))>>)>>,
              Element(<<>>), "object", <<>>)

\* a field whose type is a union, and a field its parent type does not declare
SearchField ==
    FieldNode("search", TRUE, Element(<<>>), <<>>, Element(<<>>), "union", <<>>)
BogusField ==
    FieldNode("bogus", FALSE, Absent, <<>>, Absent, "none", <<>>)

\* a field whose type is an interface no object type implements
OrphanField ==
    FieldNode("orphan", TRUE, Element(<<>>), <<>>, Interface(<<>>), "interface", <<>>)

\* the AST node a document names
Node(id) ==
    CASE id = "enter_document" -> Callback(id, "", "none", NoVariables)
      [] id = "leave_document" -> Callback(id, "", "none", NoVariables)
      [] id = "query" -> Callback("enter_operation_definition", "", "object",
                                  Variables(TRUE, TRUE, Some(2)))
      [] id = "queryBadVariables" -> Callback("enter_operation_definition", "", "object",
                                              Variables(FALSE, FALSE, UNSET))
      [] id = "leave_operation_definition" -> Callback(id, "", "none", NoVariables)
      [] id = "leave_field" -> Callback(id, "", "none", NoVariables)
      [] id = "fragment F" -> Callback("enter_fragment_definition", "F", "object", NoVariables)
      [] id = "leave_fragment_definition" -> Callback(id, "", "none", NoVariables)
      [] id = "...F" -> Callback("enter_fragment_spread", "F", "none", NoVariables)
      [] id = "fragment G" -> Callback("enter_fragment_definition", "G", "object", NoVariables)
      [] id = "...G" -> Callback("enter_fragment_spread", "G", "none", NoVariables)
      [] id = "plain" -> PlainField
      [] id = "flat" -> FlatField
      [] id = "flatUnset" -> UnsetFlatField
      [] id = "__typename" -> TypenameField
      [] id = "first5" -> First5Field
      [] id = "assumed" -> AssumedField
      [] id = "first2last3" -> First2Last3Field
      [] id = "firstVar" -> FirstVarField
      [] id = "firstNegative" -> FirstNegativeField
      [] id = "unsized" -> UnsizedField
      [] id = "node" -> NodeField
      [] id = "lowHigh" -> LowHighField
      [] id = "highLow" -> HighLowField
      [] id = "tie" -> TieField
      [] id = "search" -> SearchField
      [] id = "bogus" -> BogusField
      [] id = "orphan" -> OrphanField

(***************************************************************************)
(* Documents: the callback sequences of the documents with one operation,  *)
(* at most one fragment definition (before or after the operation) and at  *)
(* most MaxFields fields and fragment spreads in all.  A document names    *)
(* its AST nodes; Node gives the node of a name.                           *)
(***************************************************************************)
RECURSIVE Selections(_, _, _)
\* the selection sets with exactly n fields and spreads
Selections(n, fields, spreads) ==
    IF n = 0 THEN {<<>>}
    ELSE UNION ({ UNION { { <<f>> \o inner \o <<"leave_field">> \o rest :
                              inner \in Selections(i, fields, spreads),
                              rest \in Selections(n - 1 - i, fields, spreads) } :
                          i \in 0..(n - 1) } : f \in fields }
                \cup { { <<s>> \o rest :
                            rest \in Selections(n - 1, fields, spreads) } : s \in spreads })

OperationDefinition(operation, selections) ==
    <<operation>> \o selections \o <<"leave_operation_definition">>
FragmentDefinition(fragment, selections) ==
    <<fragment>> \o selections \o <<"leave_fragment_definition">>
Document(definitions) == <<"enter_document">> \o definitions \o <<"leave_document">>

Operations(fields, operations, spreads) ==
    [n \in 0..MaxFields |->
        { OperationDefinition(o, sel) : o \in operations, sel \in Selections(n, fields, spreads) }]
Fragments(fields, fragments) ==
    [n \in 0..MaxFields |->
        { FragmentDefinition(f, sel) : f \in fragments, sel \in Selections(n, fields, {}) }]

Documents(fields, operations, fragments, spreads) ==
    LET ops == Operations(fields, operations, spreads)
        frs == Fragments(fields, fragments)
        Both(n) == UNION { { <<op, fr>> : op \in ops[n], fr \in frs[m] } :
                              m \in 0..(MaxFields - n) }
    IN  UNION { { Document(op) : op \in ops[n] } : n \in 0..MaxFields }
        \cup UNION { { Document(pair[1] \o pair[2]) : pair \in Both(n) } : n \in 0..MaxFields }
        \cup UNION { { Document(pair[2] \o pair[1]) : pair \in Both(n) } : n \in 0..MaxFields }

(***************************************************************************)
(* State.  Every variable but extension is indexed by the pass.            *)
(***************************************************************************)
VARIABLES
    extension,               \* the QueryComplexityExtension found on the schema
    doc,                     \* the document each pass validates
    pos,                     \* index in doc of the visitor's next callback
    status,                  \* "walking", "break", "done" or "raised"
    exc,                     \* the exception a raised pass ended with
    parentTypes,             \* the visitor's TypeInfo: stack of parent type kinds
    nodes,                   \* heap of State objects; a State is named by its index
    _state,                  \* self._state: stack of State indices
    _fragments,              \* self._fragments: name -> State index, 0 when absent
    _operation_definitions,  \* self._operation_definitions
    execution_errors,        \* execution_context.errors
    reported,                \* errors given to report_error
    _complexity_var,         \* the values set on the context variable
    interleaved              \* TRUE when the host validates on several threads

vars == <<extension, doc, pos, status, exc, parentTypes, nodes, _state, _fragments,
          _operation_definitions, execution_errors, reported, _complexity_var,
          interleaved>>

\* the State dataclass and FragmentLateEval, as entries of a children list
State(directive) ==
    [directive |-> directive, added_complexity |-> 0, multipliers |-> <<>>, children |-> <<>>]
Owned(id) == [late |-> FALSE, id |-> id, name |-> ""]
FragmentLateEval(name) == [late |-> TRUE, id |-> 0, name |-> name]

ComplexityResult(current, max) == [current |-> current, max |-> max]
\* the GraphQLError of leave_document with its extensions
ComplexityError(current, max) ==
    [kind |-> "complexity", current |-> current, max |-> max]
\* the errors get_variable_values returned
VariableError == [kind |-> "variables", current |-> 0, max |-> 0]

Last(seq) == seq[Len(seq)]
Pop(seq) == SubSeq(seq, 1, Len(seq) - 1)

RECURSIVE SeqSum(_)
SeqSum(seq) == IF seq = <<>> THEN 0 ELSE seq[1] + SeqSum(Tail(seq))

RECURSIVE SeqProduct(_)
SeqProduct(seq) == IF seq = <<>> THEN 1 ELSE seq[1] * SeqProduct(Tail(seq))

(***************************************************************************)
(* The cost folder.  A fold yields a value or raises: TypeError when a     *)
(* multiplier is None, KeyError when a fragment name is not in the table.  *)
(***************************************************************************)
Value(v) == [exc |-> "", value |-> v]
Raises(e) == [exc |-> e, value |-> 0]

\* mutant of _calculate_complexity: the complexity of the field's type is
\* added for every node
CalculateComplexityOwnEverywhere(state, children_complexity, default_complexity) ==
    IF state.directive.tag = "ListCost"
    THEN LET complexity == state.added_complexity + children_complexity
             mults == IF state.multipliers # <<>> THEN state.multipliers
                      ELSE <<Some(_get_unset_value(state.directive.assumed_size, 0))>>
         IN  IF \E i \in 1..Len(mults) : mults[i] = UNSET THEN Raises("TypeError")
             ELSE Value(SeqSum([i \in 1..Len(mults) |->
                                      complexity * _get_unset_value(mults[i], 0)]))
    ELSE IF state.directive.tag = "Cost"
    THEN Value(_get_unset_value(state.directive.complexity, default_complexity)
               + state.added_complexity + children_complexity)
    ELSE Value(default_complexity + state.added_complexity + children_complexity)

\* mutant of _calculate_complexity: the multipliers are multiplied together
CalculateComplexityProduct(state, children_complexity, default_complexity) ==
    IF state.directive.tag = "ListCost"
    THEN LET complexity == state.added_complexity + children_complexity
             mults == IF state.multipliers # <<>> THEN state.multipliers
                      ELSE <<Some(_get_unset_value(state.directive.assumed_size, 0))>>
         IN  IF \E i \in 1..Len(mults) : mults[i] = UNSET THEN Raises("TypeError")
             ELSE Value(complexity * SeqProduct([i \in 1..Len(mults) |->
                                      _get_unset_value(mults[i], 0)]))
    ELSE IF state.directive.tag = "Cost"
    THEN Value(_get_unset_value(state.directive.complexity, default_complexity)
               + children_complexity)
    ELSE Value(default_complexity + children_complexity)

\* mutant of _calculate_complexity: a declared flat complexity is added to the default
CalculateComplexityFlatOnTop(state, children_complexity, default_complexity) ==
    IF state.directive.tag = "ListCost"
    THEN LET complexity == state.added_complexity + children_complexity
             mults == IF state.multipliers # <<>> THEN state.multipliers
                      ELSE <<Some(_get_unset_value(state.directive.assumed_size, 0))>>
         IN  IF \E i \in 1..Len(mults) : mults[i] = UNSET THEN Raises("TypeError")
             ELSE Value(SeqSum([i \in 1..Len(mults) |->
                                      complexity * _get_unset_value(mults[i], 0)]))
    ELSE IF state.directive.tag = "Cost"
    THEN Value(default_complexity + _get_unset_value(state.directive.complexity, 0)
               + children_complexity)
    ELSE Value(default_complexity + children_complexity)

_calculate_complexity(state, children_complexity, default_complexity) ==
    IF state.directive.tag = "ListCost"
    THEN LET complexity == state.added_complexity + children_complexity
             mults == IF state.multipliers # <<>> THEN state.multipliers
                      ELSE <<Some(_get_unset_value(state.directive.assumed_size, 0))>>
         IN  IF \E i \in 1..Len(mults) : mults[i] = UNSET THEN Raises("TypeError")
             ELSE Value(SeqSum([i \in 1..Len(mults) |->
                                      complexity * _get_unset_value(mults[i], 0)]))
    ELSE IF state.directive.tag = "Cost"
    THEN Value(_get_unset_value(state.directive.complexity, default_complexity)
               + children_complexity)
    ELSE Value(default_complexity + children_complexity)

\* mutant of _resolve_complexity: a spread of a fragment that is being folded
\* contributes nothing
RECURSIVE ResolveGuardedWithin(_, _, _, _, _)
ResolveGuardedWithin(heap, fragments, ref, default_complexity, folding) ==
    IF ref.late /\ fragments[ref.name] = 0 THEN Raises("KeyError")
    ELSE IF ref.late /\ ref.name \in folding THEN Value(0)
    ELSE LET state == heap[IF ref.late THEN fragments[ref.name] ELSE ref.id]
             inner == IF ref.late THEN folding \cup {ref.name} ELSE folding
             folded == [i \in 1..Len(state.children) |->
                           ResolveGuardedWithin(heap, fragments, state.children[i],
                                                default_complexity, inner)]
         IN  IF \E i \in 1..Len(folded) : folded[i].exc # ""
             THEN folded[CHOOSE i \in 1..Len(folded) :
                             /\ folded[i].exc # ""
                             /\ \A j \in 1..(i - 1) : folded[j].exc = ""]
             ELSE _calculate_complexity(
                      state,
                      SeqSum([i \in 1..Len(folded) |-> folded[i].value]),
                      default_complexity)

ResolveComplexityGuarded(heap, fragments, ref, default_complexity) ==
    ResolveGuardedWithin(heap, fragments, ref, default_complexity, {})

\* _resolve_complexity with frames the calls the interpreter still allows:
\* the recursion has no guard of its own, the interpreter ends it with
\* RecursionError
RECURSIVE _resolve_complexity_within(_, _, _, _, _)
_resolve_complexity_within(heap, fragments, ref, default_complexity, frames) ==
    IF frames = 0 THEN Raises("RecursionError")
    ELSE IF ref.late /\ fragments[ref.name] = 0 THEN Raises("KeyError")
    ELSE LET state == heap[IF ref.late THEN fragments[ref.name] ELSE ref.id]
             folded == [i \in 1..Len(state.children) |->
                           _resolve_complexity_within(heap, fragments, state.children[i],
                                                      default_complexity, frames - 1)]
         IN  IF \E i \in 1..Len(folded) : folded[i].exc # ""
             THEN folded[CHOOSE i \in 1..Len(folded) :
                             /\ folded[i].exc # ""
                             /\ \A j \in 1..(i - 1) : folded[j].exc = ""]
             ELSE _calculate_complexity(
                      state,
                      SeqSum([i \in 1..Len(folded) |-> folded[i].value]),
                      default_complexity)

_resolve_complexity(heap, fragments, ref, default_complexity) ==
    _resolve_complexity_within(heap, fragments, ref, default_complexity, RecursionLimit)

(***************************************************************************)
(* The rule object of one pass, as a record the handlers transform.        *)
(* result is the handler's return value (None, SKIP or BREAK); exc names   *)
(* the exception it raised, "" when it returned.                           *)
(***************************************************************************)
Self(p) ==
    [nodes |-> nodes[p], _state |-> _state[p], _fragments |-> _fragments[p],
     _operation_definitions |-> _operation_definitions[p],
     execution_errors |-> execution_errors[p], reported |-> reported[p],
     _complexity_var |-> _complexity_var[p], result |-> "None", exc |-> ""]

Raise(self, e) == [self EXCEPT !.exc = e]
Return(self, r) == [self EXCEPT !.result = r]

\* mutant of _enter: the state is pushed but never appended to its parent
EnterNeverContributes(self, state, contributes_to_cost) ==
    [self EXCEPT !.nodes = Append(self.nodes, state),
                 !._state = Append(self._state, Len(self.nodes) + 1)]

_enter(self, state, contributes_to_cost) ==
    IF contributes_to_cost /\ self._state = <<>> THEN Raise(self, "IndexError")
    ELSE LET id == Len(self.nodes) + 1
             linked == IF contributes_to_cost
                       THEN [self.nodes EXCEPT ![Last(self._state)].children =
                                                   Append(@, Owned(id))]
                       ELSE self.nodes
         IN  [self EXCEPT !.nodes = Append(linked, state),
                          !._state = Append(self._state, id)]

_leave(self) ==
    IF self._state = <<>> THEN Raise(self, "IndexError")
    ELSE [self EXCEPT !._state = Pop(self._state)]

operation_definition(self) ==
    IF self._operation_definitions = <<>> THEN NoVariables
    ELSE Last(self._operation_definitions)

enter_operation_definition(self, node) ==
    [self EXCEPT !._operation_definitions = Append(@, node.variables)]

leave_operation_definition(self) ==
    IF self._operation_definitions = <<>> THEN Raise(self, "IndexError")
    ELSE [self EXCEPT !._operation_definitions = Pop(@)]

\* get_argument_values for one argument of the node: a literal, null, or the
\* variable's value; an unbound optional variable leaves the argument out
ArgumentValue(arg, variables_values) ==
    IF arg.kind = "int" THEN [missing |-> FALSE, value |-> Some(arg.val)]
    ELSE IF arg.kind = "null" THEN [missing |-> FALSE, value |-> UNSET]
    ELSE IF variables_values.bound THEN [missing |-> FALSE, value |-> variables_values.value]
    ELSE [missing |-> TRUE, value |-> UNSET]

\* mutant of _add_field_variables_to_state: a resolution failure is recorded
\* but the field is kept
AddFieldVariablesNoBreak(operation, self, node, state, cost) ==
    IF cost.tag # "ListCost" \/ cost.arguments = {} THEN [self |-> self, state |-> state]
    ELSE IF ~operation.ok
    THEN [self |-> [self EXCEPT !.execution_errors = Append(@, VariableError)],
          state |-> state]
    ELSE LET Wanted(arg) == arg.name \in cost.arguments
             wanted == SelectSeq(node.arguments, Wanted)
             values == [i \in 1..Len(wanted) |-> ArgumentValue(wanted[i], operation)]
         IN  IF \E i \in 1..Len(values) : values[i].missing
             THEN [self |-> Raise(self, "KeyError"), state |-> state]
             ELSE [self |-> self,
                   state |-> [state EXCEPT !.multipliers =
                                 @ \o [i \in 1..Len(values) |-> values[i].value]]]

\* mutant of _add_field_variables_to_state: every supplied argument is a multiplier
AddFieldVariablesAllArguments(operation, self, node, state, cost) ==
    IF cost.tag # "ListCost" \/ cost.arguments = {} THEN [self |-> self, state |-> state]
    ELSE IF ~operation.ok
    THEN [self |-> Return([self EXCEPT !.execution_errors = Append(@, VariableError)],
                          "BREAK"),
          state |-> state]
    ELSE LET values == [i \in 1..Len(node.arguments) |->
                            ArgumentValue(node.arguments[i], operation)]
         IN  IF \E i \in 1..Len(values) : values[i].missing
             THEN [self |-> Raise(self, "KeyError"), state |-> state]
             ELSE [self |-> self,
                   state |-> [state EXCEPT !.multipliers =
                                 @ \o [i \in 1..Len(values) |-> values[i].value]]]

\* operation is the variables outcome of the enclosing operation (NoVariables
\* when there is none: get_variable_values of no definitions is the empty map)
_add_field_variables_to_state(operation, self, node, state, cost) ==
    IF cost.tag # "ListCost" \/ cost.arguments = {} THEN [self |-> self, state |-> state]
    ELSE IF ~operation.ok
    THEN [self |-> Return([self EXCEPT !.execution_errors = Append(@, VariableError)],
                          "BREAK"),
          state |-> state]
    ELSE LET Wanted(arg) == arg.name \in cost.arguments
             wanted == SelectSeq(node.arguments, Wanted)
             values == [i \in 1..Len(wanted) |-> ArgumentValue(wanted[i], operation)]
         IN  IF \E i \in 1..Len(values) : values[i].missing
             THEN [self |-> Raise(self, "KeyError"), state |-> state]
             ELSE [self |-> self,
                   state |-> [state EXCEPT !.multipliers =
                                 @ \o [i \in 1..Len(values) |-> values[i].value]]]

enter_document(self, ext) ==
    IF ~ext.attached THEN Return(self, "BREAK")
    ELSE _enter(self, State(NoDirective), FALSE)

\* mutant of leave_document: the result is set only when the threshold is
\* exceeded
LeaveDocumentPublishesOnViolation(self, ext) ==
    IF self._state = <<>> THEN Raise(self, "IndexError")
    ELSE LET state == Last(self._state)
             left == _leave(self)
             complexity == _resolve_complexity(left.nodes, left._fragments, Owned(state),
                                               ext.default_complexity)
             set == [left EXCEPT !._complexity_var =
                        Append(@, ComplexityResult(complexity.value, ext.max_complexity))]
         IN  IF left._state # <<>> THEN Raise(left, "AssertionError")
             ELSE IF complexity.exc # "" THEN Raise(left, complexity.exc)
             ELSE IF complexity.value > ext.max_complexity
             THEN [set EXCEPT !.reported =
                      Append(@, ComplexityError(complexity.value, ext.max_complexity))]
             ELSE left

\* mutant of leave_document: the comparison is not strict
LeaveDocumentNotStrict(self, ext) ==
    IF self._state = <<>> THEN Raise(self, "IndexError")
    ELSE LET state == Last(self._state)
             left == _leave(self)
             complexity == _resolve_complexity(left.nodes, left._fragments, Owned(state),
                                               ext.default_complexity)
             set == [left EXCEPT !._complexity_var =
                        Append(@, ComplexityResult(complexity.value, ext.max_complexity))]
         IN  IF left._state # <<>> THEN Raise(left, "AssertionError")
             ELSE IF complexity.exc # "" THEN Raise(left, complexity.exc)
             ELSE IF complexity.value >= ext.max_complexity
             THEN [set EXCEPT !.reported =
                      Append(@, ComplexityError(complexity.value, ext.max_complexity))]
             ELSE set

leave_document(self, ext) ==
    IF self._state = <<>> THEN Raise(self, "IndexError")
    ELSE LET state == Last(self._state)
             left == _leave(self)
             complexity == _resolve_complexity(left.nodes, left._fragments, Owned(state),
                                               ext.default_complexity)
             set == [left EXCEPT !._complexity_var =
                        Append(@, ComplexityResult(complexity.value, ext.max_complexity))]
         IN  IF left._state # <<>> THEN Raise(left, "AssertionError")
             ELSE IF complexity.exc # "" THEN Raise(left, complexity.exc)
             ELSE IF complexity.value > ext.max_complexity
             THEN [set EXCEPT !.reported =
                      Append(@, ComplexityError(complexity.value, ext.max_complexity))]
             ELSE set

\* mutant of enter_field: an introspection field is treated like any other
EnterFieldNoIntrospectionSkip(self, node, parent_type) ==
    IF parent_type = "none" THEN Return(self, "SKIP")
    ELSE IF parent_type = "union" THEN self
    ELSE IF ~node.inParent /\ node.name \notin IntrospectionNames THEN self
    ELSE LET definitions == IF parent_type = "interface" THEN node.implDefs
                            ELSE <<node.def>>
             directives == [i \in 1..Len(definitions) |-> _get_cost_directive(definitions[i])]
             resolves_to_type_cost == _get_cost_directive(node.type)
             cost == MaxByKey(directives)
             added == _add_field_variables_to_state(
                          operation_definition(self), self, node, State(cost), cost)
             state == IF resolves_to_type_cost.tag \notin {"None", "ListCost"}
                      THEN [added.state EXCEPT !.added_complexity =
                               @ + _get_unset_value(resolves_to_type_cost.complexity, 0)]
                      ELSE added.state
         IN  IF resolves_to_type_cost.tag = "ValueError" \/ cost.tag = "ValueError"
             THEN Raise(self, "ValueError")
             ELSE IF added.self.exc # "" \/ added.self.result # "None" THEN added.self
             ELSE _enter(added.self, state, TRUE)

\* parent_type is context.get_parent_type(): "none", "union", "interface" or "object"
enter_field(self, node, parent_type) ==
    IF node.name \in IntrospectionNames THEN Return(self, "SKIP")
    ELSE IF parent_type = "none" THEN Return(self, "SKIP")
    ELSE IF parent_type = "union" THEN self
    ELSE IF ~node.inParent THEN self
    ELSE LET definitions == IF parent_type = "interface" THEN node.implDefs
                            ELSE <<node.def>>
             directives == [i \in 1..Len(definitions) |-> _get_cost_directive(definitions[i])]
             resolves_to_type_cost == _get_cost_directive(node.type)
             cost == MaxByKey(directives)
             added == _add_field_variables_to_state(
                          operation_definition(self), self, node, State(cost), cost)
             state == IF resolves_to_type_cost.tag \notin {"None", "ListCost"}
                      THEN [added.state EXCEPT !.added_complexity =
                               @ + _get_unset_value(resolves_to_type_cost.complexity, 0)]
                      ELSE added.state
         IN  IF resolves_to_type_cost.tag = "ValueError" \/ cost.tag = "ValueError"
             THEN Raise(self, "ValueError")
             ELSE IF added.self.exc # "" \/ added.self.result # "None" THEN added.self
             ELSE _enter(added.self, state, TRUE)

leave_field(self) == _leave(self)

\* mutant of enter_fragment_definition: the definition is linked into the tree
\* like a field
EnterFragmentDefinitionContributes(self, node) ==
    _enter([self EXCEPT !._fragments[node.name] = Len(self.nodes) + 1],
           State(NoDirective), TRUE)

enter_fragment_definition(self, node) ==
    _enter([self EXCEPT !._fragments[node.name] = Len(self.nodes) + 1],
           State(NoDirective), FALSE)

leave_fragment_definition(self) == _leave(self)

\* context.get_fragment(name): the document's fragment definition of that name
get_fragment(document, name) ==
    \E i \in 1..Len(document) :
        Node(document[i]).k = "enter_fragment_definition" /\ Node(document[i]).name = name

\* mutant of enter_fragment_spread: the name is looked up in the fragment
\* table at the spread, and a fragment not yet entered contributes nothing
EnterFragmentSpreadEager(self, node, document) ==
    IF ~get_fragment(document, node.name) \/ self._fragments[node.name] = 0 THEN self
    ELSE IF self._state = <<>> THEN Raise(self, "IndexError")
    ELSE [self EXCEPT !.nodes[Last(self._state)].children =
                          Append(@, FragmentLateEval(node.name))]

enter_fragment_spread(self, node, document) ==
    IF ~get_fragment(document, node.name) THEN self
    ELSE IF self._state = <<>> THEN Raise(self, "IndexError")
    ELSE [self EXCEPT !.nodes[Last(self._state)].children =
                          Append(@, FragmentLateEval(node.name))]

(***************************************************************************)
(* The visitor that drives a pass.  It delivers the callback at pos, acts  *)
(* on what the handler returns (SKIP: no callback below the node and no    *)
(* leave for it; BREAK: no further callback for this rule; an exception    *)
(* ends the pass) and keeps TypeInfo's parent type stack.                  *)
(***************************************************************************)
RECURSIVE ScanToLeave(_, _, _)
ScanToLeave(document, j, depth) ==
    IF Node(document[j]).k = "enter_field" THEN ScanToLeave(document, j + 1, depth + 1)
    ELSE IF Node(document[j]).k = "leave_field"
    THEN IF depth = 1 THEN j ELSE ScanToLeave(document, j + 1, depth - 1)
    ELSE ScanToLeave(document, j + 1, depth)

\* index of the leave_field callback that matches the enter_field at i
MatchingLeave(document, i) == ScanToLeave(document, i + 1, 1)

\* the host validates one document after the other, or each on its own
\* thread, where the callbacks of the passes interleave
Turn(p) == interleaved \/ \A q \in Passes : q < p => status[q] # "walking"

\* the visitor of pass p is about to deliver a callback of kind k
At(p, k) ==
    /\ Turn(p)
    /\ status[p] = "walking"
    /\ pos[p] <= Len(doc[p])
    /\ Node(doc[p][pos[p]]).k = k

\* mutant of Deliver: the stack is an attribute of the class, one for all rules
DeliverSharedStack(p, self, nextPos, nextStatus, nextParentTypes) ==
    LET stopped == self.exc # "" \/ self.result = "BREAK"
    IN  /\ status' = [status EXCEPT ![p] = IF self.exc # "" THEN "raised"
                                           ELSE IF self.result = "BREAK" THEN "break"
                                           ELSE nextStatus]
        /\ exc' = [exc EXCEPT ![p] = self.exc]
        /\ pos' = [pos EXCEPT ![p] = IF stopped THEN @ ELSE nextPos]
        /\ parentTypes' = [parentTypes EXCEPT ![p] = IF stopped THEN @ ELSE nextParentTypes]
        /\ nodes' = [nodes EXCEPT ![p] = self.nodes]
        /\ _state' = [q \in Passes |-> self._state]
        /\ _fragments' = [_fragments EXCEPT ![p] = self._fragments]
        /\ _operation_definitions' =
               [_operation_definitions EXCEPT ![p] = self._operation_definitions]
        /\ execution_errors' = [execution_errors EXCEPT ![p] = self.execution_errors]
        /\ reported' = [reported EXCEPT ![p] = self.reported]
        /\ _complexity_var' = [_complexity_var EXCEPT ![p] = self._complexity_var]
        /\ UNCHANGED <<extension, doc, interleaved>>

Deliver(p, self, nextPos, nextStatus, nextParentTypes) ==
    LET stopped == self.exc # "" \/ self.result = "BREAK"
    IN  /\ status' = [status EXCEPT ![p] = IF self.exc # "" THEN "raised"
                                           ELSE IF self.result = "BREAK" THEN "break"
                                           ELSE nextStatus]
        /\ exc' = [exc EXCEPT ![p] = self.exc]
        /\ pos' = [pos EXCEPT ![p] = IF stopped THEN @ ELSE nextPos]
        /\ parentTypes' = [parentTypes EXCEPT ![p] = IF stopped THEN @ ELSE nextParentTypes]
        /\ nodes' = [nodes EXCEPT ![p] = self.nodes]
        /\ _state' = [_state EXCEPT ![p] = self._state]
        /\ _fragments' = [_fragments EXCEPT ![p] = self._fragments]
        /\ _operation_definitions' =
               [_operation_definitions EXCEPT ![p] = self._operation_definitions]
        /\ execution_errors' = [execution_errors EXCEPT ![p] = self.execution_errors]
        /\ reported' = [reported EXCEPT ![p] = self.reported]
        /\ _complexity_var' = [_complexity_var EXCEPT ![p] = self._complexity_var]
        /\ UNCHANGED <<extension, doc, interleaved>>

EnterDocument(p) ==
    /\ At(p, "enter_document")
    /\ Deliver(p, enter_document(Self(p), extension), pos[p] + 1, "walking", parentTypes[p])

LeaveDocument(p) ==
    /\ At(p, "leave_document")
    /\ Deliver(p, leave_document(Self(p), extension), pos[p] + 1, "done", parentTypes[p])

EnterOperationDefinition(p) ==
    /\ At(p, "enter_operation_definition")
    /\ Deliver(p, enter_operation_definition(Self(p), Node(doc[p][pos[p]])), pos[p] + 1,
               "walking", Append(parentTypes[p], Node(doc[p][pos[p]]).landing))

LeaveOperationDefinition(p) ==
    /\ At(p, "leave_operation_definition")
    /\ Deliver(p, leave_operation_definition(Self(p)), pos[p] + 1, "walking",
               Pop(parentTypes[p]))

\* context.get_parent_type()
get_parent_type(p) == IF parentTypes[p] = <<>> THEN "none" ELSE Last(parentTypes[p])

EnterField(p) ==
    /\ At(p, "enter_field")
    /\ LET node == Node(doc[p][pos[p]])
           parent_type == get_parent_type(p)
           self == enter_field(Self(p), node, parent_type)
           resolved == parent_type \in {"object", "interface"} /\ node.inParent
       IN  IF self.result = "SKIP"
           THEN Deliver(p, self, MatchingLeave(doc[p], pos[p]) + 1, "walking", parentTypes[p])
           ELSE Deliver(p, self, pos[p] + 1, "walking",
                        Append(parentTypes[p], IF resolved THEN node.landing ELSE "none"))

LeaveField(p) ==
    /\ At(p, "leave_field")
    /\ Deliver(p, leave_field(Self(p)), pos[p] + 1, "walking", Pop(parentTypes[p]))

EnterFragmentDefinition(p) ==
    /\ At(p, "enter_fragment_definition")
    /\ Deliver(p, enter_fragment_definition(Self(p), Node(doc[p][pos[p]])), pos[p] + 1,
               "walking", Append(parentTypes[p], Node(doc[p][pos[p]]).landing))

LeaveFragmentDefinition(p) ==
    /\ At(p, "leave_fragment_definition")
    /\ Deliver(p, leave_fragment_definition(Self(p)), pos[p] + 1, "walking",
               Pop(parentTypes[p]))

EnterFragmentSpread(p) ==
    /\ At(p, "enter_fragment_spread")
    /\ Deliver(p, enter_fragment_spread(Self(p), Node(doc[p][pos[p]]), doc[p]), pos[p] + 1,
               "walking", parentTypes[p])

Next ==
    \E p \in Passes :
        \/ EnterDocument(p)
        \/ LeaveDocument(p)
        \/ EnterOperationDefinition(p)
        \/ LeaveOperationDefinition(p)
        \/ EnterField(p)
        \/ LeaveField(p)
        \/ EnterFragmentDefinition(p)
        \/ LeaveFragmentDefinition(p)
        \/ EnterFragmentSpread(p)

(***************************************************************************)
(* The configurations and documents of the passes.                         *)
(***************************************************************************)
\* the extension of the schema; attached = FALSE when _find_extension finds none
Extensions ==
    [attached : {TRUE}, default_complexity : 0..MaxDefault,
     max_complexity : (MaxMax - 1)..MaxMax]
    \cup {[attached |-> FALSE, default_complexity |-> 0, max_complexity |-> 0]}

\* the same document with its definitions in the opposite order
SwapDefinitions(document) ==
    LET firstEnd == CHOOSE i \in 1..Len(document) :
                        /\ Node(document[i]).k \in {"leave_operation_definition",
                                              "leave_fragment_definition"}
                        /\ \A j \in 1..(i - 1) :
                              Node(document[j]).k \notin {"leave_operation_definition",
                                                    "leave_fragment_definition"}
    IN  <<"enter_document">> \o SubSeq(document, firstEnd + 1, Len(document) - 1)
        \o SubSeq(document, 2, firstEnd) \o <<"leave_document">>

\* the document a fragment spread is inlined in: the spread is replaced by the
\* fragment's selection set and the definition is dropped
InlineFragment(document) ==
    LET IsFragmentEnd(i) == Node(document[i]).k = "leave_fragment_definition"
        IsFragmentStart(i) == Node(document[i]).k = "enter_fragment_definition"
        from == CHOOSE i \in 1..Len(document) : IsFragmentStart(i)
        to == CHOOSE i \in 1..Len(document) : IsFragmentEnd(i)
        body == SubSeq(document, from + 1, to - 1)
        rest == SubSeq(document, 1, from - 1) \o SubSeq(document, to + 1, Len(document))
        at == CHOOSE i \in 1..Len(rest) : Node(rest[i]).k = "enter_fragment_spread"
    IN  SubSeq(rest, 1, at - 1) \o body \o SubSeq(rest, at + 1, Len(rest))

\* the fragment definitions and the spreads of a document
FragmentDefinitions(document) ==
    { i \in 1..Len(document) : Node(document[i]).k = "enter_fragment_definition" }
FragmentSpreads(document) ==
    { i \in 1..Len(document) : Node(document[i]).k = "enter_fragment_spread" }

\* the documents with one more field selected somewhere in a selection set
WithOneMoreField(document, fields) ==
    { SubSeq(document, 1, i - 1) \o <<f, "leave_field">> \o SubSeq(document, i, Len(document)) :
        f \in fields,
        i \in { j \in 2..Len(document) :
                  Node(document[j]).k \in {"enter_field", "enter_fragment_spread",
                                           "leave_field", "leave_operation_definition",
                                           "leave_fragment_definition"} } }

Alone(documents) == { <<d, <<>> >> : d \in documents }

\* the state after the rules of the passes are constructed (__init__)
InitScheduled(documents, threads) ==
    /\ interleaved = threads
    /\ extension \in Extensions
    /\ doc \in documents
    /\ pos = [p \in Passes |-> 1]
    /\ status = [p \in Passes |-> IF doc[p] = <<>> THEN "idle" ELSE "walking"]
    /\ exc = [p \in Passes |-> ""]
    /\ parentTypes = [p \in Passes |-> <<>>]
    /\ nodes = [p \in Passes |-> <<>>]
    /\ _state = [p \in Passes |-> <<>>]
    /\ _fragments = [p \in Passes |-> [name \in FragmentNames |-> 0]]
    /\ _operation_definitions = [p \in Passes |-> <<>>]
    /\ execution_errors = [p \in Passes |-> <<>>]
    /\ reported = [p \in Passes |-> <<>>]
    /\ _complexity_var = [p \in Passes |-> <<>>]

InitWith(documents) == InitScheduled(documents, FALSE)

FlatFields == {"plain", "flat", "flatUnset", "__typename"}
ListFields == {"plain", "first5", "assumed", "first2last3", "firstVar", "unsized"}
InterfaceFields == {"node", "lowHigh", "highLow", "tie"}

FlatDocuments == Documents(FlatFields, {"query"}, {"fragment F"}, {"...F"})
ListDocuments == Documents(ListFields, {"query", "queryBadVariables"}, {"fragment F"}, {"...F"})
InterfaceDocuments == Documents(InterfaceFields, {"query"}, {"fragment F"}, {"...F"})

\* one pass over a document of flat and unannotated fields
Init == InitWith(Alone(FlatDocuments))
Spec == Init /\ [][Next]_vars

\* one pass over a document with list fields
InitList == InitWith(Alone(ListDocuments))
SpecList == InitList /\ [][Next]_vars

\* one pass over a document with fields of an interface
InitInterface == InitWith(Alone(InterfaceDocuments))
SpecInterface == InitInterface /\ [][Next]_vars

MixedFields == {"plain", "flat", "first2last3"}
GrowingFields == {"plain", "firstNegative"}

MixedDocuments == Documents(MixedFields, {"query"}, {"fragment F"}, {"...F"})
GrowingDocuments == Documents(GrowingFields, {"query"}, {"fragment F"}, {"...F"})

\* the documents that define a fragment and spread it exactly once
SpreadOnce(documents) ==
    { d \in documents :
        FragmentDefinitions(d) # {} /\ Cardinality(FragmentSpreads(d)) = 1 }

\* two passes: a document that spreads a fragment once, then the document
\* with that fragment's selection written inline
InitInline == InitWith({ <<d, InlineFragment(d)>> : d \in SpreadOnce(MixedDocuments) })
SpecInline == InitInline /\ [][Next]_vars

\* two passes: a document, then the document with its definitions swapped
InitOrder == InitWith({ <<d, SwapDefinitions(d)>> : d \in MixedDocuments })
SpecOrder == InitOrder /\ [][Next]_vars

\* two passes: a document, then the document with one more field selected
InitGrow ==
    InitWith(UNION { { <<d, e>> : e \in WithOneMoreField(d, GrowingFields) } :
                        d \in GrowingDocuments })
SpecGrow == InitGrow /\ [][Next]_vars

UnionFields == {"plain", "flat", "search", "bogus"}
UnionDocuments == Documents(UnionFields, {"query"}, {"fragment F"}, {"...F"})

\* one pass over a document with a union field and an undeclared field
InitUnion == InitWith(Alone(UnionDocuments))
SpecUnion == InitUnion /\ [][Next]_vars

OrphanFields == {"plain", "node", "lowHigh", "orphan"}
OrphanDocuments == Documents(OrphanFields, {"query"}, {"fragment F"}, {"...F"})

\* one pass over a document with a field of an unimplemented interface
InitOrphan == InitWith(Alone(OrphanDocuments))
SpecOrphan == InitOrphan /\ [][Next]_vars

\* fragment bodies that spread fragments, themselves included
SpreadingBodies ==
    {<<>>, <<"...F">>, <<"...G">>, <<"plain", "leave_field">>,
     <<"plain", "...F", "leave_field">>, <<"plain", "...G", "leave_field">>}

\* documents with an operation, a fragment F and possibly a fragment G, whose
\* fragments may spread each other
CyclicDocuments ==
    LET ops == UNION { Operations({"plain"}, {"query"}, {"...F", "...G"})[n] :
                          n \in 0..MaxFields }
        fs == { FragmentDefinition("fragment F", body) : body \in SpreadingBodies }
        gs == { FragmentDefinition("fragment G", body) : body \in SpreadingBodies } \cup {<<>>}
    IN  { Document(op \o f \o g) : op \in ops, f \in fs, g \in gs }
        \cup { Document(f \o g \o op) : op \in ops, f \in fs, g \in gs }

\* one pass over a document whose fragments may form a cycle
InitCycle == InitWith(Alone(CyclicDocuments))
SpecCycle == InitCycle /\ [][Next]_vars

ThreadFields == {"plain", "firstVar"}
ThreadDocuments ==
    Documents(ThreadFields, {"query", "queryBadVariables"}, {"fragment F"}, {"...F"})
\* the document the other thread validates
Partner ==
    Document(OperationDefinition("query",
                 <<"first2last3", "leave_field">>))

\* two passes on two threads, their callbacks interleaved
InitThreads ==
    InitScheduled({ <<d, Partner>> : d \in ThreadDocuments }, TRUE)
SpecThreads == InitThreads /\ [][Next]_vars

(***************************************************************************)
(* Properties.                                                             *)
(***************************************************************************)
\* the fold of the root of pass p, the first State the pass allocated
FoldedTotal(p) ==
    _resolve_complexity(nodes[p], _fragments[p], Owned(1), extension.default_complexity).value

\* C1: at document leave a violation is reported if and only if the folded
\* total is greater than max_complexity: a total equal to the maximum reports
\* nothing, a total of max + 1 reports exactly one error that carries
\* current = total and max = max_complexity.
C1_StrictThreshold ==
    \A p \in Passes :
        status[p] = "done" =>
            LET total == FoldedTotal(p)
                max == extension.max_complexity
            IN  /\ (reported[p] # <<>>) <=> (total > max)
                /\ total = max => reported[p] = <<>>
                /\ total = max + 1 => reported[p] = <<ComplexityError(total, max)>>
                /\ reported[p] \in {<<>>, <<ComplexityError(total, max)>>}

\* a pass ended with a total of max + 1 and its one violation
C1_Witness ==
    \E p \in Passes :
        /\ status[p] = "done"
        /\ FoldedTotal(p) = extension.max_complexity + 1
        /\ reported[p] = <<ComplexityError(extension.max_complexity + 1,
                                           extension.max_complexity)>>

\* a pass ended with a total equal to the maximum
C1_EqualPasses ==
    \E p \in Passes :
        status[p] = "done" /\ FoldedTotal(p) = extension.max_complexity

\* the callback at i is the enter of a list field with size arguments, inside
\* an operation whose variables get_variable_values rejects
ResolutionFailsAt(document, i) ==
    /\ i \in 1..Len(document)
    /\ Node(document[i]).k = "enter_field"
    /\ LET cost == _get_cost_directive(Node(document[i]).def)
       IN  cost.tag = "ListCost" /\ cost.arguments # {}
    /\ \E j \in 1..(i - 1) :
          /\ Node(document[j]).k = "enter_operation_definition"
          /\ ~Node(document[j]).variables.ok
          /\ \A l \in j..i : Node(document[l]).k # "leave_operation_definition"

BothDone == status[1] = "done" /\ status[2] = "done"

\* C3: a selection set folds to the same total written inline as it does as
\* the body of a fragment spread once at the same position (pass 1 validates
\* the document with the fragment, pass 2 the document with it inlined).
C3_FragmentEquivalence ==
    BothDone => FoldedTotal(1) = FoldedTotal(2)

\* C8: selecting one more field never decreases the folded total (pass 2
\* validates the document of pass 1 with one more field).
C8_Monotone ==
    BothDone => FoldedTotal(2) >= FoldedTotal(1)

(***************************************************************************)
(* What a document says about its fields, read off the callback sequence.  *)
(***************************************************************************)
\* the callback at i lies in the subtree of an introspection field
InIntrospection(document, i) ==
    \E j \in 1..i :
        /\ Node(document[j]).k = "enter_field"
        /\ Node(document[j]).name \in IntrospectionNames
        /\ i <= MatchingLeave(document, j)

\* the callback at i lies in a definition entered with a callback of kind k
InDefinition(document, i, enter, leave) ==
    \E j \in 1..(i - 1) :
        /\ Node(document[j]).k = enter
        /\ \A l \in j..i : Node(document[l]).k # leave

InOperation(document, i) ==
    InDefinition(document, i, "enter_operation_definition", "leave_operation_definition")
InFragment(document, i) ==
    InDefinition(document, i, "enter_fragment_definition", "leave_fragment_definition")

\* the fields the rule descends into
DescendedFields(document) ==
    { i \in 1..Len(document) :
        Node(document[i]).k = "enter_field" /\ ~InIntrospection(document, i) }

\* the spreads that reach a fragment the document defines
ResolvedSpreads(document) ==
    { i \in FragmentSpreads(document) :
        /\ ~InIntrospection(document, i)
        /\ get_fragment(document, Node(document[i]).name) }

\* the flat complexity a field of an object type declares, UNSET when none
DeclaredComplexity(document, i) ==
    LET cost == _get_cost_directive(Node(document[i]).def)
    IN  IF cost.tag = "Cost" THEN cost.complexity ELSE UNSET

Undeclared(document, fields) ==
    { i \in fields : DeclaredComplexity(document, i) = UNSET }

RECURSIVE DeclaredSum(_, _)
DeclaredSum(document, fields) ==
    IF fields = {} THEN 0
    ELSE LET i == CHOOSE x \in fields : TRUE
         IN  _get_unset_value(DeclaredComplexity(document, i), 0)
             + DeclaredSum(document, fields \ {i})

\* the State on top of the stack of pass p, folded
TopFold(p) ==
    _resolve_complexity(nodes[p], _fragments[p], Owned(Last(_state[p])),
                        extension.default_complexity).value

\* pass p has just entered the field at pos - 1 and pushed its State
JustEntered(p) ==
    /\ status[p] = "walking"
    /\ pos[p] > 1
    /\ Node(doc[p][pos[p] - 1]).k = "enter_field"
    /\ _state[p] # <<>>

\* What the fold yields for a document of flat-annotated and unannotated
\* fields: default_complexity for the document root, for each descended field
\* that declares no complexity and for each resolved fragment spread, plus
\* the declared flat complexities, a fragment's fields counting once per
\* spread.
FlatTotalAsFolded ==
    \A p \in Passes :
        status[p] = "done" =>
            LET d == doc[p]
                inOp == { i \in DescendedFields(d) : InOperation(d, i) }
                inFr == { i \in DescendedFields(d) : InFragment(d, i) }
                k == Cardinality(ResolvedSpreads(d))
            IN  FoldedTotal(p) =
                    extension.default_complexity
                        * (1 + Cardinality(Undeclared(d, inOp))
                           + k * (1 + Cardinality(Undeclared(d, inFr))))
                    + DeclaredSum(d, inOp) + k * DeclaredSum(d, inFr)

\* C6: for a document of flat-annotated and unannotated fields the folded
\* total is default_complexity times the number of descended fields plus the
\* sum of the declared flat complexities, whatever the order of the fields.
C6_DefaultTimesFieldCount ==
    \A p \in Passes :
        status[p] = "done" =>
            LET d == doc[p]
                inOp == { i \in DescendedFields(d) : InOperation(d, i) }
                inFr == { i \in DescendedFields(d) : InFragment(d, i) }
                k == Cardinality(ResolvedSpreads(d))
            IN  FoldedTotal(p) =
                    extension.default_complexity
                        * (Cardinality(inOp) + k * Cardinality(inFr))
                    + DeclaredSum(d, inOp) + k * DeclaredSum(d, inFr)

\* the size arguments of a list field as the query writes them
SizeArguments(node, cost) ==
    SelectSeq(node.arguments, LAMBDA a : a.name \in cost.arguments)

\* C4: a childless field annotated ListCost with complexity c and one size
\* argument folds to c * n for the size n the query supplies, and to
\* c * assumed_size when the query supplies none.
C4_ListScaling ==
    \A p \in Passes :
        (JustEntered(p) /\ Node(doc[p][pos[p]]).k = "leave_field") =>
            LET node == Node(doc[p][pos[p] - 1])
                cost == nodes[p][Last(_state[p])].directive
                sized == SizeArguments(node, cost)
            IN  (cost.tag = "ListCost" /\ cost.complexity # UNSET) =>
                    /\ (Len(sized) = 1 /\ sized[1].kind = "int") =>
                           TopFold(p) = _get_unset_value(cost.complexity, 0) * sized[1].val
                    /\ sized = <<>> =>
                           TopFold(p) = _get_unset_value(cost.complexity, 0)
                                            * _get_unset_value(cost.assumed_size, 0)

\* the folded values of the children of node i of pass p, summed
ChildrenTotal(p, i) ==
    SeqSum([j \in 1..Len(nodes[p][i].children) |->
               _resolve_complexity(nodes[p], _fragments[p], nodes[p][i].children[j],
                                   extension.default_complexity).value])

NodeFold(p, i) ==
    _resolve_complexity(nodes[p], _fragments[p], Owned(i),
                        extension.default_complexity).value

\* C5: a node annotated ListCost folds, with base its own complexity plus
\* the folded values of its children, to base * m summed over its multipliers
\* m when it has any, and to base * assumed_size (0 when unset) when it has
\* none.
C5_ListFold ==
    \A p \in Passes :
        status[p] = "done" =>
            \A i \in 1..Len(nodes[p]) :
                LET state == nodes[p][i]
                    base == state.added_complexity + ChildrenTotal(p, i)
                IN  state.directive.tag = "ListCost" =>
                        NodeFold(p, i) =
                            IF state.multipliers # <<>>
                            THEN SeqSum([j \in 1..Len(state.multipliers) |->
                                            base * _get_unset_value(state.multipliers[j], 0)])
                            ELSE base * _get_unset_value(state.directive.assumed_size, 0)

\* a folded list node with two multipliers, a child, and a sum that differs
\* from the product
C5_Witness ==
    \E p \in Passes :
        /\ status[p] = "done"
        /\ \E i \in 1..Len(nodes[p]) :
              /\ nodes[p][i].directive.tag = "ListCost"
              /\ nodes[p][i].multipliers = <<Some(2), Some(3)>>
              /\ nodes[p][i].children # <<>>
              /\ ChildrenTotal(p, i) > 0
              /\ NodeFold(p, i) = (2 + ChildrenTotal(p, i)) * 5

\* the directives the implementing object types declare on a field
ImplementorDirectives(node) ==
    [i \in 1..Len(node.implDefs) |-> _get_cost_directive(node.implDefs[i])]

\* pass p has just entered a field selected on an interface
JustEnteredOnInterface(p) ==
    /\ JustEntered(p)
    /\ Len(parentTypes[p]) >= 2
    /\ parentTypes[p][Len(parentTypes[p]) - 1] = "interface"
    /\ Node(doc[p][pos[p] - 1]).inParent

\* C7: the node of a field selected on an interface carries the directive of
\* the implementor whose comparison key is largest, the first enumerated one
\* among equal keys; with two different flat complexities that is the larger
\* one, and the field folds with it.
C7_InterfaceMax ==
    \A p \in Passes :
        JustEnteredOnInterface(p) =>
            LET seq == ImplementorDirectives(Node(doc[p][pos[p] - 1]))
                directive == nodes[p][Last(_state[p])].directive
                key(i) == default_cost_compare_key(seq[i])
            IN  /\ (key(1) = key(2)) => directive = seq[1]
                /\ (key(1) # key(2)) =>
                       /\ directive = seq[IF key(1) > key(2) THEN 1 ELSE 2]
                       /\ (seq[1].tag = "Cost" /\ seq[2].tag = "Cost") =>
                              /\ _get_unset_value(directive.complexity, 0) >= _get_unset_value(seq[1].complexity, 0)
                              /\ _get_unset_value(directive.complexity, 0) >= _get_unset_value(seq[2].complexity, 0)
                              /\ TopFold(p) = _get_unset_value(directive.complexity, 0)

\* a field entered on an interface whose second implementor declares more
C7_Witness ==
    \E p \in Passes :
        /\ JustEnteredOnInterface(p)
        /\ doc[p][pos[p] - 1] = "lowHigh"
        /\ TopFold(p) = 3

\* a field entered on an interface whose implementors have equal keys
C7_TieWitness ==
    \E p \in Passes :
        /\ JustEnteredOnInterface(p)
        /\ doc[p][pos[p] - 1] = "tie"
        /\ nodes[p][Last(_state[p])].directive = Cost(UNSET)

\* pass p stands at the enter of an introspection field
AtIntrospection(p) ==
    /\ status[p] = "walking"
    /\ pos[p] <= Len(doc[p])
    /\ Node(doc[p][pos[p]]).k = "enter_field"
    /\ Node(doc[p][pos[p]]).name \in IntrospectionNames

\* C9: an introspection field contributes nothing at any depth: entering it
\* pushes no node and appends no child, the walk resumes after the field's
\* own leave so that nothing below it is entered and nothing is popped for
\* it, and a finished pass holds a node for the root, for each fragment and
\* for each field outside introspection subtrees only.
C9_IntrospectionSkipped ==
    /\ [](\A p \in Passes :
             status[p] = "done" =>
                 Len(nodes[p]) = 1 + Cardinality(FragmentDefinitions(doc[p]))
                                   + Cardinality(DescendedFields(doc[p])))
    /\ [][\A p \in Passes :
             (AtIntrospection(p) /\ pos'[p] # pos[p]) =>
                 /\ nodes'[p] = nodes[p]
                 /\ _state'[p] = _state[p]
                 /\ status'[p] = "walking"
                 /\ pos'[p] = MatchingLeave(doc[p], pos[p]) + 1]_vars

\* a pass that finished a document with a field selected below an
\* introspection field
C9_Witness ==
    \E p \in Passes :
        /\ status[p] = "done"
        /\ \E i \in 1..Len(doc[p]) :
              /\ Node(doc[p][i]).k = "enter_field"
              /\ Node(doc[p][i]).name \in IntrospectionNames
              /\ MatchingLeave(doc[p], i) > i + 1

\* the names the spreads of pass p recorded
RecordedNames(p) ==
    UNION { { nodes[p][i].children[j].name :
                j \in { l \in 1..Len(nodes[p][i].children) : nodes[p][i].children[l].late } } :
            i \in 1..Len(nodes[p]) }

\* C10: a document folds to the same total with the fragment defined before
\* or after the operation that spreads it (pass 2 validates the document of
\* pass 1 with its two definitions swapped): a spread records the name only,
\* and when the document is left every recorded name is in the fragment
\* table, so the lookup never misses.
C10_DefinitionOrder ==
    /\ BothDone => /\ FoldedTotal(1) = FoldedTotal(2)
                   /\ _complexity_var[1] = _complexity_var[2]
    /\ \A p \in Passes :
          /\ exc[p] # "KeyError"
          /\ status[p] = "done" =>
                \A name \in RecordedNames(p) : _fragments[p][name] # 0

\* both orders folded, the spread coming before the definition in one of
\* them and contributing to the total
C10_Witness ==
    /\ BothDone
    /\ doc[1] # doc[2]
    /\ RecordedNames(1) # {} /\ RecordedNames(2) # {}
    /\ FoldedTotal(1) > extension.default_complexity

\* the heap with every recorded spread removed from the children lists
WithoutSpreads(heap) ==
    [i \in 1..Len(heap) |->
        [heap[i] EXCEPT !.children = SelectSeq(@, LAMBDA c : ~c.late)]]

\* the State indices the fragment table of pass p holds
FragmentStates(p) == { _fragments[p][name] : name \in FragmentNames } \ {0}

\* C11: a fragment definition is no node's child, so it adds nothing by being
\* defined; the document total is the total without the spreads plus, for
\* each of the k spreads reached from the root, the full folded value of the
\* fragment (k = 0: a fragment never spread adds nothing).
C11_OnlyThroughSpreads ==
    \A p \in Passes :
        status[p] = "done" =>
            LET k == Cardinality(ResolvedSpreads(doc[p]))
                inline == _resolve_complexity(WithoutSpreads(nodes[p]), _fragments[p],
                                              Owned(1), extension.default_complexity).value
            IN  /\ \A i \in 1..Len(nodes[p]) :
                      \A j \in 1..Len(nodes[p][i].children) :
                          LET c == nodes[p][i].children[j]
                          IN  ~c.late => c.id \notin FragmentStates(p)
                /\ FoldedTotal(p) =
                      inline + (IF k = 0 THEN 0 ELSE k * NodeFold(p, _fragments[p]["F"]))

\* a finished pass whose document spreads a fragment of positive cost twice
C11_Witness ==
    \E p \in Passes :
        /\ status[p] = "done"
        /\ Cardinality(ResolvedSpreads(doc[p])) = 2
        /\ NodeFold(p, _fragments[p]["F"]) > 0
        /\ FoldedTotal(p) >= 2 * NodeFold(p, _fragments[p]["F"])

\* a finished pass whose document defines a fragment of positive cost and
\* never spreads it
C11_NeverSpreadWitness ==
    \E p \in Passes :
        /\ status[p] = "done"
        /\ FragmentStates(p) # {}
        /\ ResolvedSpreads(doc[p]) = {}
        /\ NodeFold(p, _fragments[p]["F"]) > 0
        /\ FoldedTotal(p) = extension.default_complexity

C12_StoppedWitness ==
    \E p \in Passes :
        /\ status[p] = "break"
        /\ execution_errors[p] # <<>>
        /\ _complexity_var[p] = <<>>

\* the rule of a pass as __init__ leaves it
NewRule ==
    [nodes |-> <<>>, _state |-> <<>>, _fragments |-> [name \in FragmentNames |-> 0],
     _operation_definitions |-> <<>>, execution_errors |-> <<>>, reported |-> <<>>,
     _complexity_var |-> <<>>, result |-> "None", exc |-> ""]

\* the callback at i of a document delivered to a rule whose visitor holds
\* the parent types parents: the rule afterwards, the next callback and the
\* parent types then
Handle(self, parents, document, i, ext) ==
    LET node == Node(document[i])
        parent_type == IF parents = <<>> THEN "none" ELSE Last(parents)
        Then(rule, next, types) == [self |-> rule, pos |-> next, parents |-> types]
    IN  CASE node.k = "enter_document" -> Then(enter_document(self, ext), i + 1, parents)
          [] node.k = "leave_document" -> Then(leave_document(self, ext), i + 1, parents)
          [] node.k = "enter_operation_definition" ->
                Then(enter_operation_definition(self, node), i + 1,
                     Append(parents, node.landing))
          [] node.k = "leave_operation_definition" ->
                Then(leave_operation_definition(self), i + 1, Pop(parents))
          [] node.k = "enter_field" ->
                LET rule == enter_field(self, node, parent_type)
                    resolved == parent_type \in {"object", "interface"} /\ node.inParent
                IN  IF rule.result = "SKIP"
                    THEN Then(rule, MatchingLeave(document, i) + 1, parents)
                    ELSE Then(rule, i + 1,
                              Append(parents, IF resolved THEN node.landing ELSE "none"))
          [] node.k = "leave_field" -> Then(leave_field(self), i + 1, Pop(parents))
          [] node.k = "enter_fragment_definition" ->
                Then(enter_fragment_definition(self, node), i + 1,
                     Append(parents, node.landing))
          [] node.k = "leave_fragment_definition" ->
                Then(leave_fragment_definition(self), i + 1, Pop(parents))
          [] node.k = "enter_fragment_spread" ->
                Then(enter_fragment_spread(self, node, document), i + 1, parents)

\* the pass over a document run from callback i to its end with no other
\* pass around: the rule it ends with and how it ended
RECURSIVE Walk(_, _, _, _, _)
Walk(self, parents, document, i, ext) ==
    LET step == Handle([self EXCEPT !.result = "None"], parents, document, i, ext)
    IN  IF step.self.exc # "" THEN [self |-> step.self, status |-> "raised"]
        ELSE IF step.self.result = "BREAK" THEN [self |-> step.self, status |-> "break"]
        ELSE IF step.pos > Len(document) THEN [self |-> step.self, status |-> "done"]
        ELSE Walk(step.self, step.parents, document, step.pos, ext)

RunAlone(document, ext) == Walk(NewRule, <<>>, document, 1, ext)

\* the variables a pass owns
Owns(p) ==
    <<nodes[p], _state[p], _fragments[p], _operation_definitions[p], reported[p],
      _complexity_var[p], pos[p], status[p], exc[p], parentTypes[p]>>

RECURSIVE ScanToEnter(_, _, _)
ScanToEnter(document, j, depth) ==
    IF Node(document[j]).k = "leave_field" THEN ScanToEnter(document, j - 1, depth + 1)
    ELSE IF Node(document[j]).k = "enter_field"
    THEN IF depth = 1 THEN j ELSE ScanToEnter(document, j - 1, depth - 1)
    ELSE ScanToEnter(document, j - 1, depth)

\* index of the enter_field callback that the leave_field at i matches
MatchingEnter(document, i) == ScanToEnter(document, i - 1, 1)

\* pass p stands at the leave of a field
AtLeaveField(p) ==
    /\ status[p] = "walking"
    /\ pos[p] <= Len(doc[p])
    /\ Node(doc[p][pos[p]]).k = "leave_field"

\* the enter of the field pass p is about to leave pushed a State: the field
\* is declared on a parent that is an object or interface type
EnterPushed(p) ==
    /\ Node(doc[p][MatchingEnter(doc[p], pos[p])]).inParent
    /\ Len(parentTypes[p]) >= 2
    /\ parentTypes[p][Len(parentTypes[p]) - 1] \in {"object", "interface"}

\* C14: field leave pops what the matching field enter pushed, and nothing
\* when that enter pushed nothing (a field on a union, an undeclared field),
\* so that no pop finds the stack empty and document leave finds the root
\* alone on the stack.
C14_StackBalanced ==
    /\ [](\A p \in Passes :
             /\ exc[p] \notin {"IndexError", "AssertionError"}
             /\ (status[p] = "walking" /\ doc[p][pos[p]] = "leave_document")
                    => _state[p] = <<1>>)
    /\ [][\A p \in Passes :
             (AtLeaveField(p) /\ pos'[p] # pos[p]) =>
                 _state'[p] = IF EnterPushed(p) THEN Pop(_state[p]) ELSE _state[p]]_vars

\* C15: the document root is a pure container: the folded total is the sum
\* of the folded values of the root's children, whatever default_complexity.
C15_RootIsContainer ==
    \A p \in Passes :
        status[p] = "done" => FoldedTotal(p) = ChildrenTotal(p, 1)

\* C16: every multiplier of every node is a non-negative integer, so every
\* folded value and the document total are non-negative.
C16_MultipliersNonNegative ==
    \A p \in Passes :
        /\ \A i \in 1..Len(nodes[p]) :
              \A j \in 1..Len(nodes[p][i].multipliers) :
                  /\ nodes[p][i].multipliers[j] # UNSET
                  /\ _get_unset_value(nodes[p][i].multipliers[j], 0) >= 0
        /\ status[p] = "done" =>
              /\ FoldedTotal(p) >= 0
              /\ \A i \in 1..Len(nodes[p]) : NodeFold(p, i) >= 0

\* pass p is about to enter a field whose size arguments will be resolved: a
\* declared field of an object type annotated ListCost with arguments
AtSizedField(p) ==
    /\ status[p] = "walking"
    /\ pos[p] <= Len(doc[p])
    /\ Node(doc[p][pos[p]]).k = "enter_field"
    /\ Node(doc[p][pos[p]]).inParent
    /\ get_parent_type(p) = "object"
    /\ LET cost == _get_cost_directive(Node(doc[p][pos[p]]).def)
       IN  cost.tag = "ListCost" /\ cost.arguments # {}

\* the operation definition of a document
OperationOf(document) ==
    Node(document[CHOOSE i \in 1..Len(document) :
                      Node(document[i]).k = "enter_operation_definition"])

\* C17: when the size arguments of a list field are resolved the operation
\* stack is not empty and its top is the operation governing the field, in
\* an operation and in the body of a fragment the operation spreads alike,
\* so that a size argument given as a variable becomes the variable's value.
C17_OperationGovernsSizeArguments ==
    \A p \in Passes :
        /\ AtSizedField(p) =>
              /\ _operation_definitions[p] # <<>>
              /\ Last(_operation_definitions[p]) = OperationOf(doc[p]).variables
        /\ exc[p] # "KeyError"
        /\ (JustEntered(p) /\ doc[p][pos[p] - 1] = "firstVar") =>
              nodes[p][Last(_state[p])].multipliers = <<OperationOf(doc[p]).variables.value>>

\* the directives of the object types implementing an interface
ObjectDirectives(interface) ==
    [i \in 1..Len(interface.objects) |-> FirstCostDirective(interface.objects[i])]

\* C18: the directive resolved across an interface has the maximum
\* comparison key among those of the implementing object types, is none when
\* no implementor declares one, an interface without implementors included,
\* and the resolution never raises.
C18_InterfaceResolution ==
    \A p \in Passes :
        /\ exc[p] # "ValueError"
        /\ (/\ status[p] = "walking"
            /\ Node(doc[p][pos[p]]).k = "enter_field"
            /\ Node(doc[p][pos[p]]).type.kind = "interface") =>
               LET type == Node(doc[p][pos[p]]).type
                   declared == ObjectDirectives(type)
                   directive == _get_cost_directive(type)
               IN  /\ directive.tag # "ValueError"
                   /\ \A i \in 1..Len(declared) :
                         default_cost_compare_key(declared[i])
                             <= default_cost_compare_key(directive)
                   /\ (\A i \in 1..Len(declared) : declared[i] = NoDirective)
                          => directive = NoDirective

\* index of the enter of the definition that holds the callback at i
Enclosing(document, i) ==
    CHOOSE j \in 1..i :
        /\ Node(document[j]).k \in {"enter_operation_definition", "enter_fragment_definition"}
        /\ \A l \in (j + 1)..i :
              Node(document[l]).k \notin {"enter_operation_definition",
                                          "enter_fragment_definition"}

\* the fragments spread in the definition entered at j
SpreadIn(document, j) ==
    { Node(document[i]).name :
        i \in { l \in ResolvedSpreads(document) : Enclosing(document, l) = j } }

\* the fragments spread in the operation, and in the body of a fragment
SpreadInOperation(document) ==
    UNION { SpreadIn(document, j) :
              j \in { l \in 1..Len(document) :
                        Node(document[l]).k = "enter_operation_definition" } }
SpreadInFragment(document, name) ==
    UNION { SpreadIn(document, j) :
              j \in { l \in FragmentDefinitions(document) : Node(document[l]).name = name } }

\* the fragments reached from a set of fragments through spreads
RECURSIVE ReachedFrom(_, _)
ReachedFrom(document, names) ==
    LET more == names \cup UNION { SpreadInFragment(document, n) : n \in names }
    IN  IF more = names THEN names ELSE ReachedFrom(document, more)

\* a fragment the root reaches spreads itself, directly or through others
CycleReached(document) ==
    \E n \in ReachedFrom(document, SpreadInOperation(document)) :
        n \in ReachedFrom(document, SpreadInFragment(document, n))

\* C19: at document leave the fold yields an integer when the fragments the
\* root reaches form no cycle; when they form one the recursion is stopped by
\* nothing in the fold, only by the interpreter, and the pass ends with
\* neither a total nor an error of its own.
C19_FoldTerminatesIffAcyclic ==
    \A p \in Passes :
        (extension.attached /\ status[p] \in {"done", "raised"}) =>
            IF CycleReached(doc[p])
            THEN /\ status[p] = "raised"
                 /\ exc[p] = "RecursionError"
                 /\ _complexity_var[p] = <<>>
                 /\ reported[p] = <<>>
            ELSE /\ status[p] = "done"
                 /\ Len(_complexity_var[p]) = 1
                 /\ _complexity_var[p][1].current \in Int

\* a pass ended in the fold of a document whose fragments F and G spread
\* each other
C19_Witness ==
    \E p \in Passes :
        /\ status[p] = "raised"
        /\ exc[p] = "RecursionError"
        /\ "G" \in SpreadInFragment(doc[p], "F")
        /\ "F" \in SpreadInFragment(doc[p], "G")

\* a pass that folded a document whose fragment spreads itself but is not
\* reached from the root
C19_UnreachedCycleWitness ==
    \E p \in Passes :
        /\ status[p] = "done"
        /\ "F" \in SpreadInFragment(doc[p], "F")
        /\ ~CycleReached(doc[p])

\* the sizes a list node is scaled by: its multipliers, else its assumed size
Scales(state) ==
    IF state.multipliers # <<>>
    THEN [j \in 1..Len(state.multipliers) |-> _get_unset_value(state.multipliers[j], 0)]
    ELSE <<_get_unset_value(state.directive.assumed_size, 0)>>

\* C20: the complexity of a field's type, kept in added_complexity, changes
\* the folded value of a node annotated ListCost only, where it is scaled by
\* the multipliers or the assumed size; a node annotated Cost or not
\* annotated folds to the same value whatever its added_complexity.
C20_OwnComplexityOnlyForLists ==
    \A p \in Passes :
        status[p] = "done" =>
            \A i \in 1..Len(nodes[p]) :
                LET state == nodes[p][i]
                    Without(a) ==
                        _calculate_complexity([state EXCEPT !.added_complexity = a],
                                              ChildrenTotal(p, i),
                                              extension.default_complexity).value
                IN  IF state.directive.tag = "ListCost"
                    THEN NodeFold(p, i) =
                             Without(0) + state.added_complexity * SeqSum(Scales(state))
                    ELSE \A a \in 0..3 : NodeFold(p, i) = Without(a)

\* a folded document with an unannotated field whose type has a complexity,
\* and a list field whose type has one, scaled
C20_Witness ==
    \E p \in Passes :
        /\ status[p] = "done"
        /\ \E i \in 1..Len(nodes[p]) :
              /\ nodes[p][i].directive.tag = "None"
              /\ nodes[p][i].added_complexity > 0
              /\ NodeFold(p, i) = extension.default_complexity + ChildrenTotal(p, i)
        /\ \E i \in 1..Len(nodes[p]) :
              /\ nodes[p][i].directive.tag = "ListCost"
              /\ nodes[p][i].added_complexity > 0
              /\ NodeFold(p, i) > 0

====
